---- MODULE Spec2Model ----
(***************************************************************************)
(* A model of ChessAnalyzer (src/src/analysis/analyzer.py): the lazy       *)
(* engine session, the per-ply walk of analyze_game, the classification    *)
(* thresholds, the accuracy figure and the material fallback evaluator.    *)
(*                                                                         *)
(* The chess rules library (python-chess) is abstracted to what the        *)
(* analyzer reads of it: a board is the piece counts of both sides and the *)
(* side to move, a move is its UCI text together with what it captures and *)
(* what it promotes to, and read_game keeps the moves of the text up to    *)
(* the first one the library rejects.                                      *)
(***************************************************************************)
EXTENDS Integers, Sequences, FiniteSets, TLC

\* ------------------------------------------------------------------ bounds

\* Longest move text (in plies, legal or not) given to analyze_game.
MaxPlies == 4

\* Most engine processes spawned in one run (further spawn attempts fail).
MaxSpawns == 2

\* ------------------------------------------------------------- board model

None == "None"

\* The keys of the `values` dict of _material_eval, in its iteration order.
PieceOrder == <<"P", "N", "B", "R", "Q", "K">>

\* values[piece_type] of _material_eval, in centipawns.
PieceValue(pt) ==
    CASE pt = "P" -> 100
      [] pt = "N" -> 300
      [] pt = "B" -> 300
      [] pt = "R" -> 500
      [] pt = "Q" -> 900
      [] pt = "K" -> 0

Other(color) == IF color = "w" THEN "b" ELSE "w"

\* One side's pieces of the standard starting position.
FullSide == [P |-> 8, N |-> 2, B |-> 2, R |-> 2, Q |-> 1, K |-> 1]

LoneKing == [P |-> 0, N |-> 0, B |-> 0, R |-> 0, Q |-> 0, K |-> 1]

\* game.board(): the standard position, or the position of the text's FEN header.
StartBoard == [turn |-> "w", w |-> FullSide, b |-> FullSide]

\* White is a knight up, white to move.
KnightUpBoard == [turn |-> "w", w |-> FullSide, b |-> [FullSide EXCEPT !.N = 1]]

\* White is a pawn down, white to move.
PawnDownBoard == [turn |-> "w", w |-> [FullSide EXCEPT !.P = 7], b |-> FullSide]

\* King and pawn against king, white to move.
PawnEndingBoard == [turn |-> "w", w |-> [LoneKing EXCEPT !.P = 1], b |-> LoneKing]

\* len(board.pieces(piece_type, color))
PieceCount(board, pt, color) == board[color][pt]

\* A move of the text: its UCI form, the piece type it captures, the piece
\* type it promotes to, and whether the library accepts it at all.
Mv(uci, cap, promo, legal) ==
    [uci |-> uci, cap |-> cap, promo |-> promo, legal |-> legal]

Quiet(uci) == Mv(uci, None, None, TRUE)

\* Whether the library accepts move m on the board (parse_san succeeds).
LegalOn(board, m) ==
    /\ m.legal
    /\ m.cap # "K"
    /\ m.cap # None => PieceCount(board, m.cap, Other(board.turn)) > 0
    /\ m.promo # None => /\ m.promo \in {"N", "B", "R", "Q"}
                         /\ PieceCount(board, "P", board.turn) > 0

\* board.push(move): the capture leaves the opponent's side, a promoting pawn
\* is replaced, and the turn passes. Legality is not checked here.
Push(board, m) ==
    LET mover == board.turn
        opp == Other(mover)
        oppSide == IF m.cap # None
                   THEN [board[opp] EXCEPT ![m.cap] = @ - 1]
                   ELSE board[opp]
        movSide == IF m.promo # None
                   THEN [board[mover] EXCEPT !["P"] = @ - 1, ![m.promo] = @ + 1]
                   ELSE board[mover]
    IN  IF mover = "w"
        THEN [turn |-> opp, w |-> movSide, b |-> oppSide]
        ELSE [turn |-> opp, w |-> oppSide, b |-> movSide]

\* move.uci()
Uci(m) == m.uci

\* ------------------------------------------------------------- move texts

\* A move text: `blank` when it holds nothing at all, the position it starts
\* from, and the moves written in it.
Text(blank, start, tokens) == [blank |-> blank, start |-> start, tokens |-> tokens]

TextPool ==
    { Text(TRUE, StartBoard, <<>>),
      \* headers or prose only: no move
      Text(FALSE, StartBoard, <<>>),
      \* "1. e4 e5"
      Text(FALSE, StartBoard, <<Quiet("e2e4"), Quiet("e7e5")>>),
      \* "1. e4 e5 2. Nf3 Nc6"
      Text(FALSE, StartBoard,
           <<Quiet("e2e4"), Quiet("e7e5"), Quiet("g1f3"), Quiet("b8c6")>>),
      \* "1. e4 e5 2. Nf3 Nc6 3. Bb5"
      Text(FALSE, StartBoard,
           <<Quiet("e2e4"), Quiet("e7e5"), Quiet("g1f3"), Quiet("b8c6"),
             Quiet("f1b5")>>),
      \* "1. e4 d5 2. exd5"
      Text(FALSE, StartBoard,
           <<Quiet("e2e4"), Quiet("d7d5"), Mv("e4d5", "P", None, TRUE)>>),
      \* white a knight up: "1. Nf3 Nf6"
      Text(FALSE, KnightUpBoard, <<Quiet("g1f3"), Quiet("g8f6")>>),
      \* white a pawn down: "1. Nf3 Nf6"
      Text(FALSE, PawnDownBoard, <<Quiet("g1f3"), Quiet("g8f6")>>),
      \* white a pawn down takes a knight: "1. Nxe5 a6"
      Text(FALSE, PawnDownBoard,
           <<Mv("f3e5", "N", None, TRUE), Quiet("a7a6")>>),
      \* king and pawn ending: "1. Kd7 Kf7 2. e8=Q+"
      Text(FALSE, PawnEndingBoard,
           <<Quiet("d6d7"), Quiet("f8f7"), Mv("e7e8q", None, "Q", TRUE)>>),
      \* "1. e4 e5 2. Ke3 Nc6": the third move is illegal
      Text(FALSE, StartBoard,
           <<Quiet("e2e4"), Quiet("e7e5"), Mv("e1e3", None, None, FALSE),
             Quiet("b8c6")>>),
      \* "1. e5": the first move is illegal
      Text(FALSE, StartBoard, <<Mv("e2e5", None, None, FALSE)>>) }

PgnTexts == {t \in TextPool : Len(t.tokens) <= MaxPlies}

\* The moves of `tokens` the library accepts one after the other from
\* `board`: it stops at the first move it rejects and keeps what it read.
RECURSIVE LegalPrefix(_, _)
LegalPrefix(board, tokens) ==
    IF tokens = <<>> \/ ~LegalOn(board, Head(tokens))
    THEN <<>>
    ELSE <<Head(tokens)>> \o LegalPrefix(Push(board, Head(tokens)), Tail(tokens))

NoGame == [none |-> TRUE]

\* chess.pgn.read_game(StringIO(pgn)): no game for a text that holds nothing,
\* otherwise a game with the starting position and the mainline it could read.
ReadGame(text) ==
    IF text.blank
    THEN NoGame
    ELSE [board |-> text.start, mainline |-> LegalPrefix(text.start, text.tokens)]

\* ------------------------------------------------------------ the engine

\* self.engine when a process is held.
Live == "engine"

\* What _find_stockfish returns when it finds a binary.
FoundPath == "/usr/bin/stockfish"

\* The environment of one _ensure_engine call: whether _find_stockfish finds
\* a binary, whether the path exists, and whether each popen_uci succeeds.
SpawnEnvs ==
    [found : BOOLEAN, exists : BOOLEAN, popenPath : BOOLEAN, popenName : BOOLEAN]

NoEnv == [found |-> FALSE, exists |-> FALSE, popenPath |-> FALSE, popenName |-> FALSE]

\* _find_stockfish()
FindStockfish(env) == IF env.found THEN FoundPath ELSE None

\* Mutant: the by-name popen_uci is outside any try, so its failure escapes.
EnsureEngine_Uncaught(eng, sfpath, env) ==
    IF eng # None
    THEN [engine |-> eng, stockfish_path |-> sfpath, raised |-> FALSE,
          spawned |-> FALSE]
    ELSE LET path == IF sfpath # None THEN sfpath ELSE FindStockfish(env)
         IN  IF path # None /\ env.exists /\ env.popenPath
             THEN [engine |-> Live, stockfish_path |-> path, raised |-> FALSE,
                   spawned |-> TRUE]
             ELSE IF env.popenName
                  THEN [engine |-> Live, stockfish_path |-> "stockfish",
                        raised |-> FALSE, spawned |-> TRUE]
                  ELSE [engine |-> None, stockfish_path |-> sfpath,
                        raised |-> TRUE, spawned |-> FALSE]

\* Mutant: the `if self.engine is not None: return` is missing.
EnsureEngine_Respawn(eng, sfpath, env) ==
    LET path == IF sfpath # None THEN sfpath ELSE FindStockfish(env)
    IN  IF path # None /\ env.exists /\ env.popenPath
        THEN [engine |-> Live, stockfish_path |-> path, raised |-> FALSE,
              spawned |-> TRUE]
        ELSE IF env.popenName
             THEN [engine |-> Live, stockfish_path |-> "stockfish",
                   raised |-> FALSE, spawned |-> TRUE]
             ELSE [engine |-> None, stockfish_path |-> sfpath,
                   raised |-> FALSE, spawned |-> FALSE]

\* _ensure_engine(): the handle and path it leaves, whether it spawned a
\* process, and whether an exception leaves it (both popen_uci calls are
\* inside try/except).
EnsureEngine(eng, sfpath, env) ==
    IF eng # None
    THEN [engine |-> eng, stockfish_path |-> sfpath, raised |-> FALSE,
          spawned |-> FALSE]
    ELSE LET path == IF sfpath # None THEN sfpath ELSE FindStockfish(env)
         IN  IF path # None /\ env.exists /\ env.popenPath
             THEN [engine |-> Live, stockfish_path |-> path, raised |-> FALSE,
                   spawned |-> TRUE]
             ELSE IF env.popenName
                  THEN [engine |-> Live, stockfish_path |-> "stockfish",
                        raised |-> FALSE, spawned |-> TRUE]
                  ELSE [engine |-> None, stockfish_path |-> sfpath,
                        raised |-> FALSE, spawned |-> FALSE]

\* What engine.analyse does: it raises, or returns an info whose score is
\* absent (<<>>) or present (<<cp>>) and whose pv is a sequence of moves.
Reply(raises, score, pv) ==
    [raises |-> raises, info |-> [score |-> score, pv |-> pv]]

EngineReplies ==
    { Reply(TRUE, <<>>, <<>>),
      Reply(FALSE, <<>>, <<>>),
      Reply(FALSE, <<0>>, <<>>),
      Reply(FALSE, <<50>>, <<Quiet("g1f3")>>),
      Reply(FALSE, <<100>>, <<Quiet("d2d4"), Quiet("d7d5")>>) }

\* _extract_engine_score(info): the centipawn score, 0 when info has none.
ExtractEngineScore(info) == IF info.score = <<>> THEN 0 ELSE info.score[1]

\* first = pv[0] if pv else None; first.uci() if hasattr(first, "uci") else None
BestMoveUci(info) == IF info.pv # <<>> THEN Uci(info.pv[1]) ELSE None

\* --------------------------------------------------- the fallback evaluator

\* The loop of _material_eval over the keys of `values`, for one colour.
RECURSIVE MaterialSum(_, _, _)
MaterialSum(board, color, i) ==
    IF i > Len(PieceOrder)
    THEN 0
    ELSE PieceCount(board, PieceOrder[i], color) * PieceValue(PieceOrder[i])
         + MaterialSum(board, color, i + 1)

\* Mutant: the value is not made relative to the side to move.
MaterialEval_Absolute(board) ==
    MaterialSum(board, "w", 1) - MaterialSum(board, "b", 1)

\* _material_eval(board): white minus black, relative to the side to move.
MaterialEval(board) ==
    LET white == MaterialSum(board, "w", 1)
        black == MaterialSum(board, "b", 1)
        eval_cp == white - black
    IN  IF board.turn = "w" THEN eval_cp ELSE -eval_cp

\* ------------------------------------------------ classification, accuracy

BlunderThreshold == 200

MistakeThreshold == 100

InaccuracyThreshold == 50

Abs(x) == IF x < 0 THEN -x ELSE x

\* Mutant: the difference keeps its sign.
ScoreChange_Signed(score_before, score_after) ==
    IF score_before # 0 /\ score_after # 0
    THEN score_before - score_after
    ELSE 0

\* abs(score_before - score_after) if score_before and score_after else 0
ScoreChange(score_before, score_after) ==
    IF score_before # 0 /\ score_after # 0
    THEN Abs(score_before - score_after)
    ELSE 0

\* Mutant: the thresholds are exclusive.
Classify_Strict(score_change) ==
    IF score_change > BlunderThreshold THEN "blunders"
    ELSE IF score_change > MistakeThreshold THEN "mistakes"
    ELSE None

\* The `if score_change >= 200 ... elif score_change >= 100` of analyze_game:
\* the list, if any, the record is appended to.
Classify(score_change) ==
    IF score_change >= BlunderThreshold THEN "blunders"
    ELSE IF score_change >= MistakeThreshold THEN "mistakes"
    ELSE None

\* Mutant: a loss of exactly 50 is not counted.
IsInaccurate_Strict(move) == move.score_change > InaccuracyThreshold

\* The test of _calculate_accuracy's loop.
IsInaccurate(move) == move.score_change >= InaccuracyThreshold

RECURSIVE CountInaccurate(_)
CountInaccurate(moves) ==
    IF moves = <<>>
    THEN 0
    ELSE (IF IsInaccurate(Head(moves)) THEN 1 ELSE 0) + CountInaccurate(Tail(moves))

\* A float as an exact fraction num/den.
Frac(num, den) == [num |-> num, den |-> den]

\* Mutant: the ratio is not scaled to a percentage.
CalculateAccuracy_Ratio(moves) ==
    IF moves = <<>>
    THEN Frac(0, 1)
    ELSE Frac(Len(moves) - CountInaccurate(moves), Len(moves))

\* Mutant: no moves count as a perfect game.
CalculateAccuracy_EmptyPerfect(moves) ==
    IF moves = <<>>
    THEN Frac(100, 1)
    ELSE Frac((Len(moves) - CountInaccurate(moves)) * 100, Len(moves))

\* _calculate_accuracy(moves): 0.0 for no moves, else
\* (accurate_moves / total_moves) * 100.
CalculateAccuracy(moves) ==
    IF moves = <<>>
    THEN Frac(0, 1)
    ELSE LET total_moves == Len(moves)
             accurate_moves == total_moves - CountInaccurate(moves)
         IN  Frac(accurate_moves * 100, total_moves)

\* ----------------------------------------------------------------- state

VARIABLES
    engine,          \* self.engine: None or the engine process handle
    stockfish_path,  \* self.stockfish_path
    pc,              \* "idle" between calls, "walk" inside analyze_game's loop
    pgn,             \* the move text of the current (or last) analyze_game call
    game,            \* what read_game returned for it
    board,           \* the walk's board
    move_number,     \* the walk's ply counter
    analysis,        \* the dict the walk fills
    result,          \* what the last call returned (NoResult until it returns)
    raised,          \* whether the last call ended with an exception
    used_engine      \* history: whether a record of `analysis` was made with an
                     \* engine held

VARIABLES
    procs,           \* the engine processes spawned so far, in order: for each,
                     \* how many times quit() was called on it; self.engine,
                     \* when held, is the handle of the last one
    last_eval,       \* history: what the two evaluations of the last ply did
    spawn_failed,    \* history: some _ensure_engine call failed to spawn
    caller,          \* the public method the caller is in, or last was in
    out              \* what get_position_evaluation or detect_blunders returned

\* The history and caller variables, which analyze_game itself never reads.
traceVars == <<last_eval, spawn_failed, caller, out>>

VARIABLES
    analysis_progress,   \* web_app.analysis_progress
    workers,             \* the worker threads the web app started, in order
    client               \* a browser: the job it started last, and what it read
                         \* from /api/progress since

\* The state of the web application around its analyzer, and of its client.
webVars == <<analysis_progress, workers, client>>

VARIABLES
    now,                 \* time.time(), in seconds
    last_request_time,   \* ChessComClient.last_request_time
    callers,             \* the threads using the one ChessComClient: where
                         \* each is in a request
    returns              \* history: when the last two _rate_limit calls returned

\* The state of the Chess.com client.
rateVars == <<now, last_request_time, callers, returns>>

VARIABLES
    games_table,         \* the rows of the games table of one ChessDatabase
    inserted,            \* history: the games handed to insert_game and
                         \* insert_games_batch, in order
    found                \* what the last get_game_by_id was asked and returned

\* The state of the database.
dbVars == <<games_table, inserted, found>>

VARIABLES
    api_key,             \* GrokClient.api_key
    advice               \* the last get_chess_advice call: what it was given,
                         \* what the remote API did, what it returned

\* The state of the AI client.
aiVars == <<api_key, advice>>

VARIABLES
    fetch_button,        \* the state of the GUI's Fetch Games button
    analyze_button,      \* the state of its Analyze Games button
    current_games,       \* len(self.current_games)
    threads              \* the worker threads the GUI started, in order

\* The state of the desktop GUI.
guiVars == <<fetch_button, analyze_button, current_games, threads>>

\* The state of the components beside the analyzer and the web application.
restVars == <<rateVars, dbVars, aiVars, guiVars>>

vars == <<engine, stockfish_path, pc, pgn, game, board, move_number, analysis,
          result, raised, used_engine, procs, traceVars, webVars, restVars>>

NoResult == [pending |-> TRUE]

\* {"error": "Invalid PGN"}
ErrorResult == [error |-> "Invalid PGN"]

\* "summary": {} until the walk ends.
NoSummary == [total_moves |-> 0, blunder_count |-> 0, mistake_count |-> 0,
              accuracy |-> Frac(0, 1), filled |-> FALSE]

\* The `analysis` dict analyze_game starts with.
EmptyAnalysis ==
    [moves |-> <<>>, blunders |-> <<>>, mistakes |-> <<>>, summary |-> NoSummary]

\* No analyze_game call has been made yet.
NoPgn == [none |-> TRUE]

\* A value of web_app.analysis_progress: its status and progress.
\* (`by` is the thread that made the dict: the index of the worker, 0 for the
\* module itself.)
Progress(status, progress, by) ==
    [status |-> status, progress |-> progress, by |-> by]

\* REQUEST_DELAY = 2.0, in seconds.
RequestDelay == 2

\* time.time() when the client is made: some time not less than REQUEST_DELAY
\* after the epoch.
Epoch == RequestDelay

\* Most seconds that pass in one run.
MaxTicks == 5

\* Most threads that use the one client.
MaxCallers == 2

\* A thread using the client: where it is, and until when it sleeps.
Caller(at, wake) == [pc |-> at, wake |-> wake]

\* Nothing was read from /api/progress yet.
NoRead == [pending |-> TRUE]

\* A browser that has started no job.
NoClient == [job |-> 0, read |-> NoRead]

\* The call the caller made.
Call(op) == [op |-> op]

NoCall == Call(None)

\* No ply has been evaluated yet.
NoEval == [none |-> TRUE]

\* Nothing was returned yet by get_position_evaluation or detect_blunders.
NoOut == [pending |-> TRUE]

\* __init__: no engine; the path is the one given or found, if any.
Init ==
    /\ engine = None
    /\ stockfish_path \in {None, FoundPath}
    /\ pc = "idle"
    /\ pgn = NoPgn
    /\ game = NoGame
    /\ board = StartBoard
    /\ move_number = 0
    /\ analysis = EmptyAnalysis
    /\ result = NoResult
    /\ raised = FALSE
    /\ used_engine = FALSE
    /\ procs = <<>>
    /\ last_eval = NoEval
    /\ spawn_failed = FALSE
    /\ caller = NoCall
    /\ out = NoOut
    /\ analysis_progress = Progress("idle", 0, 0)
    /\ client = NoClient
    /\ now = Epoch
    /\ last_request_time = 0
    /\ callers = [t \in 1..MaxCallers |-> Caller("idle", 0)]
    /\ returns = <<>>
    /\ workers = <<>>
    /\ games_table = {}
    /\ inserted = <<>>
    /\ found = NoCall
    /\ api_key = None
    /\ advice = NoCall
    /\ fetch_button = "normal"
    /\ analyze_button = "disabled"
    /\ current_games = 0
    /\ threads = <<>>

\* --------------------------------------------------------------- the walk

\* One evaluation of analyze_game's loop before the move: the engine's score,
\* 0 when the call raises, the material value when there is no engine.
EvalBefore(eng, b, reply) ==
    IF eng # None
    THEN IF reply.raises THEN 0 ELSE ExtractEngineScore(reply.info)
    ELSE MaterialEval(b)

\* The evaluation after the move: the score and best_move_uci.
EvalAfter(eng, b, reply) ==
    IF eng # None
    THEN IF reply.raises
         THEN [score |-> 0, best_move |-> None]
         ELSE [score |-> ExtractEngineScore(reply.info),
               best_move |-> BestMoveUci(reply.info)]
    ELSE [score |-> MaterialEval(b), best_move |-> None]

\* Mutant: the ply counter advances by two.
NextMoveNumber_Skip(n) == n + 2

\* move_number += 1
NextMoveNumber(n) == n + 1

\* The move_analysis dict of one ply.
MoveAnalysis(n, move, score_before, aft, after_board) ==
    [move_number |-> n,
     move |-> Uci(move),
     score_before |-> score_before,
     score_after |-> aft.score,
     score_change |-> ScoreChange(score_before, aft.score),
     best_move |-> aft.best_move,
     fen |-> after_board]

\* Mutant: blunders and mistakes are kept latest first.
Record_Prepend(an, rec) ==
    LET where == Classify(rec.score_change)
    IN  [an EXCEPT !.moves = Append(@, rec),
                   !.blunders = IF where = "blunders" THEN <<rec>> \o @ ELSE @,
                   !.mistakes = IF where = "mistakes" THEN <<rec>> \o @ ELSE @]

\* analysis["moves"].append(...) and the append to blunders or mistakes.
Record(an, rec) ==
    LET where == Classify(rec.score_change)
    IN  [an EXCEPT !.moves = Append(@, rec),
                   !.blunders = IF where = "blunders" THEN Append(@, rec) ELSE @,
                   !.mistakes = IF where = "mistakes" THEN Append(@, rec) ELSE @]

\* The summary analyze_game generates after the loop.
Summary(an, n) ==
    [total_moves |-> n,
     blunder_count |-> Len(an.blunders),
     mistake_count |-> Len(an.mistakes),
     accuracy |-> CalculateAccuracy(an.moves),
     filled |-> TRUE]

\* Mutant: the `if not game` check is missing, so game.board() raises.
AnalyzeStart_Unchecked(text) ==
    /\ pc = "idle"
    /\ pgn' = text
    /\ game' = ReadGame(text)
    /\ IF game' = NoGame
       THEN /\ result' = NoResult
            /\ raised' = TRUE
            /\ pc' = "idle"
            /\ UNCHANGED <<board, move_number, analysis, used_engine>>
       ELSE /\ result' = NoResult
            /\ raised' = FALSE
            /\ pc' = "walk"
            /\ board' = game'.board
            /\ move_number' = 0
            /\ analysis' = EmptyAnalysis
            /\ used_engine' = FALSE
    /\ UNCHANGED <<engine, stockfish_path, procs>>

\* Mutant: the engine is started at the head of analyze_game, before the loop.
AnalyzeStart_Eager(text) ==
    /\ pc = "idle"
    /\ pgn' = text
    /\ game' = ReadGame(text)
    /\ raised' = FALSE
    /\ IF game' = NoGame
       THEN /\ result' = ErrorResult
            /\ pc' = "idle"
            /\ UNCHANGED <<board, move_number, analysis, used_engine>>
       ELSE /\ result' = NoResult
            /\ pc' = "walk"
            /\ board' = game'.board
            /\ move_number' = 0
            /\ analysis' = EmptyAnalysis
            /\ used_engine' = FALSE
    /\ IF engine = None /\ Len(procs) < MaxSpawns
       THEN engine' = Live /\ procs' = Append(procs, 0)
       ELSE UNCHANGED <<engine, procs>>
    /\ UNCHANGED stockfish_path

\* analyze_game up to its loop: read the game; no game returns the error dict.
AnalyzeStart(text) ==
    /\ pc = "idle"
    /\ pgn' = text
    /\ game' = ReadGame(text)
    /\ raised' = FALSE
    /\ IF game' = NoGame
       THEN /\ result' = ErrorResult
            /\ pc' = "idle"
            /\ UNCHANGED <<board, move_number, analysis, used_engine>>
       ELSE /\ result' = NoResult
            /\ pc' = "walk"
            /\ board' = game'.board
            /\ move_number' = 0
            /\ analysis' = EmptyAnalysis
            /\ used_engine' = FALSE
    /\ UNCHANGED <<engine, stockfish_path, procs>>

\* The environments an _ensure_engine call can meet: none matters when a
\* handle is held, and no popen_uci succeeds once MaxSpawns processes exist.
EnsureEnvs ==
    IF engine # None
    THEN {NoEnv}
    ELSE IF Len(procs) < MaxSpawns
         THEN SpawnEnvs
         ELSE {env \in SpawnEnvs : ~env.popenPath /\ ~env.popenName}

\* The replies engine.analyse can give to a holder of handle eng (none is
\* asked for without a handle).
RepliesTo(eng) ==
    IF eng = None THEN {Reply(TRUE, <<>>, <<>>)} ELSE EngineReplies

\* The process list after an _ensure_engine call.
Spawned(ps, ens) == IF ens.spawned THEN Append(ps, 0) ELSE ps

\* Mutant: a failed engine.analyse call drops the handle.
AnalyzePlyWith_DropOnFailure(env, rb, ra) ==
    /\ pc = "walk"
    /\ move_number < Len(game.mainline)
    /\ LET ens == EnsureEngine(engine, stockfish_path, env)
           n == NextMoveNumber(move_number)
           move == game.mainline[move_number + 1]
           score_before == EvalBefore(ens.engine, board, rb)
           after_board == Push(board, move)
           aft == EvalAfter(ens.engine, after_board, ra)
           rec == MoveAnalysis(n, move, score_before, aft, after_board)
       IN  /\ engine' = IF ens.engine # None /\ (rb.raises \/ ra.raises)
                        THEN None ELSE ens.engine
           /\ stockfish_path' = ens.stockfish_path
           /\ procs' = Spawned(procs, ens)
           /\ raised' = FALSE
           /\ pc' = "walk"
           /\ board' = after_board
           /\ move_number' = n
           /\ analysis' = Record(analysis, rec)
           /\ used_engine' = (used_engine \/ ens.engine # None)
    /\ UNCHANGED <<pgn, game, result>>

\* One iteration of the loop over game.mainline_moves(): _ensure_engine, the
\* evaluation before the move, the push, the evaluation after it, the record;
\* env is what _ensure_engine meets, rb and ra what engine.analyse answers.
\* (prev_score is assigned and never read; it is left out.)
AnalyzePlyWith(env, rb, ra) ==
    /\ pc = "walk"
    /\ move_number < Len(game.mainline)
    /\ LET ens == EnsureEngine(engine, stockfish_path, env)
           n == NextMoveNumber(move_number)
           move == game.mainline[move_number + 1]
           score_before == EvalBefore(ens.engine, board, rb)
           after_board == Push(board, move)
           aft == EvalAfter(ens.engine, after_board, ra)
           rec == MoveAnalysis(n, move, score_before, aft, after_board)
       IN  /\ engine' = ens.engine
           /\ stockfish_path' = ens.stockfish_path
           /\ procs' = Spawned(procs, ens)
           /\ IF ens.raised
              THEN /\ raised' = TRUE
                   /\ pc' = "idle"
                   /\ UNCHANGED <<board, move_number, analysis, used_engine>>
              ELSE /\ raised' = FALSE
                   /\ pc' = "walk"
                   /\ board' = after_board
                   /\ move_number' = n
                   /\ analysis' = Record(analysis, rec)
                   /\ used_engine' = (used_engine \/ ens.engine # None)
    /\ UNCHANGED <<pgn, game, result>>

\* A ply of the walk, whatever the environment and the engine do.
AnalyzePly ==
    \E env \in EnsureEnvs :
        \E rb, ra \in RepliesTo(EnsureEngine(engine, stockfish_path, env).engine) :
            AnalyzePlyWith(env, rb, ra)

\* The end of the loop: the summary, and the return.
AnalyzeFinish ==
    /\ pc = "walk"
    /\ move_number = Len(game.mainline)
    /\ analysis' = [analysis EXCEPT !.summary = Summary(analysis, move_number)]
    /\ result' = analysis'
    /\ pc' = "idle"
    /\ UNCHANGED <<engine, stockfish_path, pgn, game, board, move_number, raised,
                   used_engine, procs>>

\* analyze_game, called by a caller that does nothing else.
Next ==
    \/ \E text \in PgnTexts : AnalyzeStart(text) /\ UNCHANGED <<traceVars, webVars, restVars>>
    \/ AnalyzePly /\ UNCHANGED <<traceVars, webVars, restVars>>
    \/ AnalyzeFinish /\ UNCHANGED <<traceVars, webVars, restVars>>

Spec == Init /\ [][Next]_vars

\* ------------------------------------------------------------ the session
\* One caller using every public method of one analyzer, one call at a time.

\* The game texts given to a session: those of at most one full move.
SessionTexts == {t \in PgnTexts : Len(t.tokens) <= 2}

\* A FEN string, and whether chess.Board(fen) accepts it.
Fen(text, valid) == [text |-> text, valid |-> valid]

Fens ==
    { Fen("rnbqkbnr/pppppppp/8/8/8/8/PPPPPPPP/RNBQKBNR w KQkq - 0 1", TRUE),
      Fen("not a fen", FALSE) }

\* The depths asked for: the default of get_position_evaluation and another.
Depths == {15, 10}

\* What the engine answered in a step: the replies of engine.analyse, in order.
Asked(replies) == [replies |-> replies]

\* The return expression of get_position_evaluation. best_move is by now a
\* str (first.uci()) or None; `best_move.uci() if best_move else None` looks
\* up .uci on a non-empty str, which raises AttributeError, and the
\* surrounding `except Exception as e` returns {"error": str(e)}.
PositionReturn(score, best_move, depth, fen) ==
    IF best_move # None
    THEN [error |-> "'str' object has no attribute 'uci'"]
    ELSE [score |-> score, best_move |-> None, depth |-> depth, fen |-> fen]

\* get_position_evaluation(fen, depth) after _ensure_engine left handle eng:
\* what it returns, whether an exception leaves it, and what the engine was
\* asked. chess.Board(fen) stands before the try.
PositionEvaluation(eng, fen, depth, reply) ==
    IF eng = None
    THEN [out |-> [error |-> "Stockfish engine not available"],
          raised |-> FALSE, asked |-> <<>>]
    ELSE IF ~fen.valid
         THEN [out |-> NoOut, raised |-> TRUE, asked |-> <<>>]
         ELSE IF reply.raises
              THEN [out |-> [error |-> "engine error"], raised |-> FALSE,
                    asked |-> <<reply>>]
              ELSE [out |-> PositionReturn(ExtractEngineScore(reply.info),
                                           BestMoveUci(reply.info), depth, fen),
                    raised |-> FALSE, asked |-> <<reply>>]

\* The locals and the return value of analyze_game are those of the last
\* call of it; another method called after it leaves none of them behind.
ForgetWalk ==
    /\ pgn' = NoPgn
    /\ game' = NoGame
    /\ board' = StartBoard
    /\ move_number' = 0
    /\ analysis' = EmptyAnalysis
    /\ result' = NoResult
    /\ used_engine' = FALSE

\* A call of get_position_evaluation; env is what _ensure_engine meets and
\* reply what engine.analyse answers.
GetPositionEvaluationWith(fen, depth, env, reply) ==
    /\ pc = "idle"
    /\ LET ens == EnsureEngine(engine, stockfish_path, env)
           ev == PositionEvaluation(ens.engine, fen, depth, reply)
       IN  /\ engine' = ens.engine
           /\ stockfish_path' = ens.stockfish_path
           /\ procs' = Spawned(procs, ens)
           /\ out' = ev.out
           /\ raised' = ev.raised
    /\ caller' = [op |-> "get_position_evaluation", fen |-> fen, depth |-> depth]
    /\ ForgetWalk
    /\ UNCHANGED pc

\* dict.get(key, default)
DictGet(d, key, default) == IF key \in DOMAIN d THEN d[key] ELSE default

\* What detect_blunders returns for the dict analyze_game gave it.
DetectBlundersReturn(res) == [value |-> DictGet(res, "blunders", <<>>)]

\* A call of analyze_game or detect_blunders (op), up to the loop of
\* analyze_game; detect_blunders returns at once when analyze_game does.
CallAnalyze(op, text) ==
    /\ AnalyzeStart(text)
    /\ caller' = Call(op)
    /\ out' = IF op = "detect_blunders" /\ pc' = "idle"
              THEN DetectBlundersReturn(result')
              ELSE NoOut
    /\ last_eval' = NoEval

\* The return of analyze_game, and of detect_blunders when it was the caller.
CallFinish ==
    /\ AnalyzeFinish
    /\ out' = IF caller.op = "detect_blunders"
              THEN DetectBlundersReturn(result')
              ELSE out
    /\ UNCHANGED <<caller, last_eval>>

\* The process list after quit() on the process the handle refers to.
Quit(ps) == [ps EXCEPT ![Len(ps)] = @ + 1]

\* Mutant: quit() is called and the handle is kept.
CloseEngine_KeepHandle(eng, ps) ==
    IF eng # None
    THEN [engine |-> eng, procs |-> Quit(ps)]
    ELSE [engine |-> eng, procs |-> ps]

\* Mutant: the handle is dropped and quit() is never called.
CloseEngine_NoQuit(eng, ps) == [engine |-> None, procs |-> ps]

\* The body of close(): `if self.engine: self.engine.quit(); self.engine = None`.
\* (engine.quit() is taken to return.)
CloseEngine(eng, ps) ==
    IF eng # None
    THEN [engine |-> None, procs |-> Quit(ps)]
    ELSE [engine |-> eng, procs |-> ps]

\* A call of close(); `again` remembers that the call before was close() too.
Close ==
    /\ pc = "idle"
    /\ engine' = CloseEngine(engine, procs).engine
    /\ procs' = CloseEngine(engine, procs).procs
    /\ raised' = FALSE
    /\ caller' = [op |-> "close", again |-> caller.op = "close"]
    /\ out' = NoOut
    /\ ForgetWalk
    /\ UNCHANGED <<stockfish_path, pc, last_eval, spawn_failed>>

\* __del__: close(), and the analyzer is gone.
Del ==
    /\ pc = "idle"
    /\ engine' = CloseEngine(engine, procs).engine
    /\ procs' = CloseEngine(engine, procs).procs
    /\ raised' = FALSE
    /\ caller' = [op |-> "__del__", after_close |-> caller.op = "close"]
    /\ out' = NoOut
    /\ pc' = "deleted"
    /\ ForgetWalk
    /\ UNCHANGED <<stockfish_path, last_eval, spawn_failed>>

\* Whether the _ensure_engine call of a step found no handle and left none.
SpawnFailure(env) ==
    engine = None /\ EnsureEngine(engine, stockfish_path, env).engine = None

\* A ply of the walk in a session.
SessionPly ==
    \E env \in EnsureEnvs :
        \E rb, ra \in RepliesTo(EnsureEngine(engine, stockfish_path, env).engine) :
            /\ AnalyzePlyWith(env, rb, ra)
            /\ spawn_failed' = (spawn_failed \/ SpawnFailure(env))
            /\ UNCHANGED <<caller, out, last_eval>>

\* A call of get_position_evaluation in a session.
SessionPosition ==
    \E fen \in Fens, depth \in Depths, env \in EnsureEnvs :
        \E reply \in RepliesTo(EnsureEngine(engine, stockfish_path, env).engine) :
            /\ GetPositionEvaluationWith(fen, depth, env, reply)
            /\ spawn_failed' = (spawn_failed \/ SpawnFailure(env))
            /\ UNCHANGED last_eval

SessionInit == Init

SessionNext ==
    \/ \E text \in SessionTexts :
         CallAnalyze("analyze_game", text) /\ UNCHANGED <<spawn_failed, webVars, restVars>>
    \/ \E text \in SessionTexts :
         CallAnalyze("detect_blunders", text) /\ UNCHANGED <<spawn_failed, webVars, restVars>>
    \/ SessionPly /\ UNCHANGED <<webVars, restVars>>
    \/ CallFinish /\ UNCHANGED <<spawn_failed, webVars, restVars>>
    \/ SessionPosition /\ UNCHANGED <<webVars, restVars>>
    \/ Close /\ UNCHANGED <<webVars, restVars>>
    \/ Del /\ UNCHANGED <<webVars, restVars>>

\* One caller, every public method, one call at a time.
SpecSession == SessionInit /\ [][SessionNext]_vars

\* ------------------------------------------------------ traced evaluations
\* analyze_game and get_position_evaluation, with what each step asked of the
\* engine and was answered kept in last_eval.

TracedPly ==
    \E env \in EnsureEnvs :
        LET eng == EnsureEngine(engine, stockfish_path, env).engine
        IN  \E rb, ra \in RepliesTo(eng) :
              /\ AnalyzePlyWith(env, rb, ra)
              /\ last_eval' = Asked(IF eng = None THEN <<>> ELSE <<rb, ra>>)
              /\ UNCHANGED <<caller, out, spawn_failed>>

TracedPosition ==
    \E fen \in Fens, depth \in Depths, env \in EnsureEnvs :
        LET eng == EnsureEngine(engine, stockfish_path, env).engine
        IN  \E reply \in RepliesTo(eng) :
              /\ GetPositionEvaluationWith(fen, depth, env, reply)
              /\ last_eval' =
                   Asked(PositionEvaluation(eng, fen, depth, reply).asked)
              /\ UNCHANGED spawn_failed

TraceInit == Init

TraceNext ==
    \/ \E text \in SessionTexts :
         CallAnalyze("analyze_game", text) /\ UNCHANGED <<spawn_failed, webVars, restVars>>
    \/ TracedPly /\ UNCHANGED <<webVars, restVars>>
    \/ CallFinish /\ UNCHANGED <<spawn_failed, webVars, restVars>>
    \/ TracedPosition /\ UNCHANGED <<webVars, restVars>>

SpecTrace == TraceInit /\ [][TraceNext]_vars

\* ---------------------------------------------------- the web application
\* web_app.py: one module-level current_analyzer, made by
\* initialize_components, and one thread per POST to /api/analyze_games or
\* /api/analyze_single_game. Each statement that reads or writes the shared
\* analyzer or analysis_progress is a step of its thread.

\* Most worker threads started in one run.
MaxWorkers == 2

\* Most games the database returns to a worker.
MaxGames == 3

\* The variables of the analyzer that the threads' steps leave alone here.
walkVars == <<pc, pgn, game, board, move_number, analysis, result, raised,
              used_engine>>

\* A worker thread: the endpoint that started it, where it is, the number of
\* games it loaded and the index of the game it is at.
Worker(kind) == [kind |-> kind, pc |-> "start", total |-> 0, i |-> 0]

\* POST /api/analyze_games: starts analyze_worker and returns.
PostAnalyzeGames ==
    /\ Len(workers) < MaxWorkers
    /\ workers' = Append(workers, Worker("analyze_games"))
    /\ UNCHANGED <<engine, stockfish_path, procs, analysis_progress, walkVars,
                   traceVars, restVars>>

\* POST /api/analyze_single_game: without a game_id it returns an error and
\* starts nothing; otherwise it starts analyze_single_worker and returns.
PostAnalyzeSingleGame(game_id) ==
    /\ Len(workers) < MaxWorkers
    /\ workers' = IF game_id = ""
                  THEN workers
                  ELSE Append(workers, Worker("analyze_single_game"))
    /\ UNCHANGED <<engine, stockfish_path, procs, analysis_progress, walkVars,
                   traceVars, restVars>>

\* The first statement of either worker.
WorkerStart(w) ==
    /\ workers[w].pc = "start"
    /\ workers[w].kind \in {"analyze_games", "analyze_single_game"}
    /\ analysis_progress' = Progress("analyzing", 0, w)
    /\ workers' = [workers EXCEPT ![w].pc = "load"]
    /\ UNCHANGED <<engine, stockfish_path, procs, walkVars, traceVars, restVars>>

\* The database is opened and read: it raises (the outer except), finds
\* nothing, or finds games (one game for analyze_single_worker, which then
\* sets the progress to 50).
WorkerLoad(w) ==
    /\ workers[w].pc = "load"
    /\ \E db_raises \in BOOLEAN :
         \E n \in 0..(IF workers[w].kind = "analyze_games" THEN MaxGames ELSE 1) :
           IF db_raises \/ n = 0
           THEN /\ analysis_progress' = Progress("error", 0, w)
                /\ workers' = [workers EXCEPT ![w].pc = "done"]
           ELSE IF workers[w].kind = "analyze_games"
                THEN /\ workers' = [workers EXCEPT ![w].pc = "loop",
                                                   ![w].total = n]
                     /\ UNCHANGED analysis_progress
                ELSE /\ analysis_progress' = Progress("analyzing", 50, w)
                     /\ workers' = [workers EXCEPT ![w].pc = "call",
                                                   ![w].total = n]
    /\ UNCHANGED <<engine, stockfish_path, procs, walkVars, traceVars, restVars>>

\* analyze_worker's `for i, game in enumerate(games)`: the progress of game i,
\* or, after the last game, the "completed" progress.
WorkerLoop(w) ==
    /\ workers[w].pc = "loop"
    /\ IF workers[w].i < workers[w].total
       THEN /\ analysis_progress' =
                 Progress("analyzing", (workers[w].i * 100) \div workers[w].total, w)
            /\ workers' = [workers EXCEPT ![w].pc = "call"]
       ELSE /\ analysis_progress' = Progress("completed", 100, w)
            /\ workers' = [workers EXCEPT ![w].pc = "done"]
    /\ UNCHANGED <<engine, stockfish_path, procs, walkVars, traceVars, restVars>>

\* current_analyzer.analyze_game(game['pgn']) is called: the thread is in
\* analyze_game, at the _ensure_engine of a ply.
WorkerCall(w) ==
    /\ workers[w].pc = "call"
    /\ workers' = [workers EXCEPT ![w].pc = "ensure"]
    /\ UNCHANGED <<engine, stockfish_path, procs, analysis_progress, walkVars,
                   traceVars, restVars>>

\* _ensure_engine: `if self.engine is not None: return`.
WorkerEnsure(w) ==
    /\ workers[w].pc = "ensure"
    /\ workers' = [workers EXCEPT ![w].pc =
                       IF engine # None THEN "evaluate" ELSE "spawn"]
    /\ UNCHANGED <<engine, stockfish_path, procs, analysis_progress, walkVars,
                   traceVars, restVars>>

\* The rest of _ensure_engine, run by a thread that found no handle: the
\* popen_uci calls and the assignment to self.engine.
WorkerSpawn(w) ==
    /\ workers[w].pc = "spawn"
    /\ \E env \in SpawnEnvs :
         LET ens == EnsureEngine(None, stockfish_path, env)
         IN  /\ ens.spawned => Len(procs) < MaxSpawns
             /\ engine' = ens.engine
             /\ stockfish_path' = ens.stockfish_path
             /\ procs' = Spawned(procs, ens)
    /\ workers' = [workers EXCEPT ![w].pc = "evaluate"]
    /\ UNCHANGED <<analysis_progress, walkVars, traceVars, restVars>>

\* The evaluations of the ply (engine.analyse on self.engine, when held) and
\* its record; then the next ply, or the return of analyze_game.
WorkerEvaluate(w) ==
    /\ workers[w].pc = "evaluate"
    /\ \E more \in BOOLEAN :
         workers' = [workers EXCEPT ![w].pc = IF more THEN "ensure" ELSE "after"]
    /\ UNCHANGED <<engine, stockfish_path, procs, analysis_progress, walkVars,
                   traceVars, restVars>>

\* After analyze_game returned: analyze_worker appends the result and goes to
\* the next game; analyze_single_worker sets the "completed" progress.
WorkerAfter(w) ==
    /\ workers[w].pc = "after"
    /\ IF workers[w].kind = "analyze_games"
       THEN /\ workers' = [workers EXCEPT ![w].pc = "loop", ![w].i = @ + 1]
            /\ UNCHANGED analysis_progress
       ELSE /\ analysis_progress' = Progress("completed", 100, w)
            /\ workers' = [workers EXCEPT ![w].pc = "done"]
    /\ UNCHANGED <<engine, stockfish_path, procs, walkVars, traceVars, restVars>>

\* initialize_components has made current_analyzer; no request was made yet.
WebInit == Init

WebNext ==
    \/ PostAnalyzeGames /\ UNCHANGED client
    \/ \E game_id \in {"", "123456"} :
         PostAnalyzeSingleGame(game_id) /\ UNCHANGED client
    \/ \E w \in 1..Len(workers) : WorkerStart(w) /\ UNCHANGED client
    \/ \E w \in 1..Len(workers) : WorkerLoad(w) /\ UNCHANGED client
    \/ \E w \in 1..Len(workers) : WorkerLoop(w) /\ UNCHANGED client
    \/ \E w \in 1..Len(workers) : WorkerCall(w) /\ UNCHANGED client
    \/ \E w \in 1..Len(workers) : WorkerEnsure(w) /\ UNCHANGED client
    \/ \E w \in 1..Len(workers) : WorkerSpawn(w) /\ UNCHANGED client
    \/ \E w \in 1..Len(workers) : WorkerEvaluate(w) /\ UNCHANGED client
    \/ \E w \in 1..Len(workers) : WorkerAfter(w) /\ UNCHANGED client

SpecWeb == WebInit /\ [][WebNext]_vars

\* ------------------------------------------- the jobs and their progress
\* The workers of /api/fetch_games and /api/analyze_games and what they write
\* to analysis_progress, read by a browser through /api/progress. A worker's
\* call of analyze_game is one step here (its own steps are those of SpecWeb).

\* The fetch modes a request can name; "other" is any unknown one.
FetchModes == {"last", "range", "days", "demo", "other"}

\* A fetch worker thread, started for a request with the given mode.
FetchWorker(mode) ==
    [kind |-> "fetch_games", pc |-> "start", mode |-> mode, total |-> 0, i |-> 0]

\* POST /api/fetch_games: without a username (unless in demo mode) it returns
\* an error and starts nothing; otherwise it starts fetch_worker and returns.
PostFetchGames(username, mode) ==
    /\ Len(workers) < MaxWorkers
    /\ workers' = IF username = "" /\ mode # "demo"
                  THEN workers
                  ELSE Append(workers, FetchWorker(mode))
    /\ UNCHANGED <<engine, stockfish_path, procs, analysis_progress, walkVars,
                   traceVars, restVars>>

\* The first statement of fetch_worker.
FetchStart(w) ==
    /\ workers[w].pc = "start"
    /\ workers[w].kind = "fetch_games"
    /\ analysis_progress' = Progress("fetching", 0, w)
    /\ workers' = [workers EXCEPT ![w].pc = "check"]
    /\ UNCHANGED <<engine, stockfish_path, procs, walkVars, traceVars, restVars>>

\* Mutant: a worker that finds the fetch mode unknown returns without
\* writing the "error" progress.
FetchOutcomes_SilentOther(mode, db_raises, existing, dates, fetched) ==
    IF db_raises THEN {"error"}
    ELSE IF existing /\ mode = "last" THEN {"completed"}
    ELSE IF mode = "last" THEN {"fetching"}
    ELSE IF mode = "range" THEN (IF dates THEN {"fetching"} ELSE {"error"})
    ELSE IF mode \in {"days", "demo"}
         THEN (IF fetched THEN {"completed"} ELSE {"error"})
    ELSE {"none"}

\* The status fetch_worker writes next after its first write: the database
\* raises (the outer except); games exist in "last" mode; "last" and "range"
\* (with both dates) go on to fetch; "days" and "demo" fetch and store at
\* once, which raises or not; an unknown mode is an error.
FetchOutcomes(mode, db_raises, existing, dates, fetched) ==
    IF db_raises THEN {"error"}
    ELSE IF existing /\ mode = "last" THEN {"completed"}
    ELSE IF mode = "last" THEN {"fetching"}
    ELSE IF mode = "range" THEN (IF dates THEN {"fetching"} ELSE {"error"})
    ELSE IF mode \in {"days", "demo"}
         THEN (IF fetched THEN {"completed"} ELSE {"error"})
    ELSE {"error"}

\* The progress value that goes with a status of fetch_worker.
FetchProgress(status, w) ==
    Progress(status,
             IF status = "completed" THEN 100 ELSE IF status = "fetching" THEN 10
             ELSE 0,
             w)

\* fetch_worker from the database check to its next progress write.
FetchCheck(w) ==
    /\ workers[w].pc = "check"
    /\ \E db_raises, existing, dates, fetched \in BOOLEAN :
         \E status \in FetchOutcomes(workers[w].mode, db_raises, existing, dates,
                                     fetched) :
           /\ analysis_progress' = IF status = "none"
                                   THEN analysis_progress
                                   ELSE FetchProgress(status, w)
           /\ workers' = [workers EXCEPT ![w].pc =
                              IF status = "fetching" THEN "fetch" ELSE "done"]
    /\ UNCHANGED <<engine, stockfish_path, procs, walkVars, traceVars, restVars>>

\* fetch_worker in "last" or "range" mode, from the client calls to the last
\* write: no archives or an exception give "error", everything else
\* "completed".
FetchFetch(w) ==
    /\ workers[w].pc = "fetch"
    /\ \E status \in {"error", "completed"} :
         analysis_progress' = FetchProgress(status, w)
    /\ workers' = [workers EXCEPT ![w].pc = "done"]
    /\ UNCHANGED <<engine, stockfish_path, procs, walkVars, traceVars, restVars>>

\* current_analyzer.analyze_game(game['pgn']) from call to return, as one
\* step: what it does to the analyzer is its _ensure_engine.
WorkerAnalyze(w) ==
    /\ workers[w].pc = "call"
    /\ \E env \in EnsureEnvs :
         LET ens == EnsureEngine(engine, stockfish_path, env)
         IN  /\ engine' = ens.engine
             /\ stockfish_path' = ens.stockfish_path
             /\ procs' = Spawned(procs, ens)
    /\ workers' = [workers EXCEPT ![w].pc = "after"]
    /\ UNCHANGED <<analysis_progress, walkVars, traceVars, restVars>>

\* The browser's job: the worker its request started.
Started == [job |-> Len(workers'), read |-> NoRead]

\* GET /api/progress by the browser that started a job.
GetProgress ==
    /\ client.job # 0
    /\ client' = [client EXCEPT !.read = analysis_progress]
    /\ UNCHANGED <<engine, stockfish_path, procs, analysis_progress, workers,
                   walkVars, traceVars, restVars>>

\* A step of worker w, if it was started.
JobStep(w) ==
    /\ w <= Len(workers)
    /\ \/ WorkerStart(w) \/ WorkerLoad(w) \/ WorkerLoop(w) \/ WorkerAnalyze(w)
       \/ WorkerAfter(w) \/ FetchStart(w) \/ FetchCheck(w) \/ FetchFetch(w)
    /\ UNCHANGED client

JobsInit == Init

\* Most jobs started where every worker is followed to its end. (A worker
\* reads nothing that another worker writes.)
MaxJobs == 1

JobsNext ==
    \/ Len(workers) < MaxJobs /\ PostAnalyzeGames /\ UNCHANGED client
    \/ \E username \in {"", "testuser"}, mode \in FetchModes :
         Len(workers) < MaxJobs /\ PostFetchGames(username, mode)
         /\ UNCHANGED client
    \/ \E w \in 1..MaxJobs : JobStep(w)

\* Every started worker thread is scheduled again and again, and its
\* external calls return.
SpecJobs ==
    /\ JobsInit
    /\ [][JobsNext]_vars
    /\ \A w \in 1..MaxJobs : WF_vars(JobStep(w))

\* The jobs, one of them started by a browser that then polls /api/progress.
ProgressNext ==
    \/ PostAnalyzeGames /\ client' = Started
    \/ PostAnalyzeGames /\ UNCHANGED client
    \/ \E username \in {"", "testuser"}, mode \in FetchModes :
         PostFetchGames(username, mode) /\ UNCHANGED client
    \/ GetProgress
    \/ \E w \in 1..MaxWorkers : JobStep(w)

SpecProgress == JobsInit /\ [][ProgressNext]_vars

\* ---------------------------------------------------- the Chess.com client
\* api/client.py: _rate_limit and the two methods that send a request after
\* it, called by the threads that share one ChessComClient (the fetch workers
\* of the web application share current_client).

\* _rate_limit up to its sleep: elapsed is computed, and the thread sleeps
\* when it is less than REQUEST_DELAY.
RateLimitEnter(t) ==
    /\ callers[t].pc = "idle"
    /\ LET elapsed == now - last_request_time
       IN  callers' = [callers EXCEPT ![t] =
                          IF elapsed < RequestDelay
                          THEN Caller("sleep", now + (RequestDelay - elapsed))
                          ELSE Caller("stamp", 0)]
    /\ UNCHANGED <<now, last_request_time, returns>>

\* time.sleep returns, not before the time asked for has passed.
RateLimitWake(t) ==
    /\ callers[t].pc = "sleep"
    /\ now >= callers[t].wake
    /\ callers' = [callers EXCEPT ![t] = Caller("stamp", 0)]
    /\ UNCHANGED <<now, last_request_time, returns>>

\* The last two entries of a sequence.
LastTwo(seq) == IF Len(seq) <= 2 THEN seq ELSE SubSeq(seq, Len(seq) - 1, Len(seq))

\* self.last_request_time = time.time(), and _rate_limit returns.
RateLimitReturn(t) ==
    /\ callers[t].pc = "stamp"
    /\ last_request_time' = now
    /\ returns' = LastTwo(Append(returns, now))
    /\ callers' = [callers EXCEPT ![t] = Caller("send", 0)]
    /\ UNCHANGED now

\* session.get(url) in _get, requests.get(archive_url) in
\* get_games_from_archive: the request is sent and answered.
SendRequest(t) ==
    /\ callers[t].pc = "send"
    /\ callers' = [callers EXCEPT ![t] = Caller("idle", 0)]
    /\ UNCHANGED <<now, last_request_time, returns>>

\* A second passes.
Tick ==
    /\ now < Epoch + MaxTicks
    /\ now' = now + 1
    /\ UNCHANGED <<last_request_time, callers, returns>>

\* Everything but the client.
notRateVars ==
    <<engine, stockfish_path, procs, walkVars, traceVars, webVars, dbVars,
      aiVars, guiVars>>

RateInit == Init

RateNext ==
    \/ \E t \in 1..MaxCallers : RateLimitEnter(t) /\ UNCHANGED notRateVars
    \/ \E t \in 1..MaxCallers : RateLimitWake(t) /\ UNCHANGED notRateVars
    \/ \E t \in 1..MaxCallers : RateLimitReturn(t) /\ UNCHANGED notRateVars
    \/ \E t \in 1..MaxCallers : SendRequest(t) /\ UNCHANGED notRateVars
    \/ Tick /\ UNCHANGED notRateVars

SpecRate == RateInit /\ [][RateNext]_vars

\* ------------------------------------------------------------ the database
\* db/database.py: the games table, insert_game, insert_games_batch and
\* get_game_by_id on one ChessDatabase.

\* Games inserted in one run.
MaxInserted == 2

\* Games in one insert_games_batch call.
MaxBatch == 2

\* The URLs of the games: the segments between the slashes, after the host.
\* Two of them end in the same game id.
Urls == {<<"game", "live", "12345">>, <<"game", "daily", "12345">>,
         <<"game", "live", "1">>}

\* The PGN texts of the games: the value of the Result header, "" when the
\* text has no such header, and the rest.
Pgns == {[result_header |-> "0-1", movetext |-> "1. e4 e5"],
         [result_header |-> "", movetext |-> "1. d4 d5"]}

\* The game dicts handed to the database: 'result' is "" when the key is
\* missing.
GameDicts == [url : Urls, pgn : Pgns, result : {"", "1-0"}]

\* game_data.get('url', '').split('/')[-1]
GameId(url) == IF url = <<>> THEN "" ELSE url[Len(url)]

GameIds == {GameId(url) : url \in Urls} \cup {"99999"}

\* The row insert_game makes of a game.
InsertGameRow(game_data) ==
    [game_id |-> GameId(game_data.url),
     pgn     |-> game_data.pgn,
     result  |-> game_data.result]

\* The row insert_games_batch makes of a game: a missing result is read from
\* the PGN's Result header.
BatchRow(game_data) ==
    [game_id |-> GameId(game_data.url),
     pgn     |-> game_data.pgn,
     result  |-> IF game_data.result = ""
                 THEN game_data.pgn.result_header
                 ELSE game_data.result]

\* INSERT OR IGNORE: a row whose game_id is taken is dropped.
InsertOrReplace_Ignore(table, row) ==
    IF \E r \in table : r.game_id = row.game_id THEN table ELSE table \cup {row}

\* INSERT OR REPLACE on the primary key game_id.
InsertOrReplace(table, row) ==
    {r \in table : r.game_id # row.game_id} \cup {row}

\* executemany: the rows are inserted in order.
RECURSIVE ExecuteMany(_, _)
ExecuteMany(table, rows) ==
    IF rows = <<>> THEN table
    ELSE ExecuteMany(InsertOrReplace(table, Head(rows)), Tail(rows))

\* insert_game(game_data)
InsertGame(game_data) ==
    /\ Len(inserted) < MaxInserted
    /\ games_table' = InsertOrReplace(games_table, InsertGameRow(game_data))
    /\ inserted' = Append(inserted, game_data)
    /\ found' = NoCall

\* The lists of games of at most MaxBatch games.
Batches == UNION {[1..n -> GameDicts] : n \in 0..MaxBatch}

\* insert_games_batch(games)
InsertGamesBatch(games) ==
    /\ Len(inserted) + Len(games) <= MaxInserted
    /\ games_table' = ExecuteMany(games_table,
                                  [i \in 1..Len(games) |-> BatchRow(games[i])])
    /\ inserted' = inserted \o games
    /\ found' = NoCall

\* What get_game_by_id returns when fetchone() finds no row: None.
NoRow == [game_id |-> None]

\* get_game_by_id(game_id): fetchone() of the rows with that id, None when
\* there is none.
GetGameById(game_id) ==
    /\ LET rows == {r \in games_table : r.game_id = game_id}
       IN  found' = [game_id |-> game_id,
                     row |-> IF rows = {} THEN NoRow ELSE CHOOSE r \in rows : TRUE]
    /\ UNCHANGED <<games_table, inserted>>

\* Everything but the database.
notDbVars ==
    <<engine, stockfish_path, procs, walkVars, traceVars, webVars, rateVars,
      aiVars, guiVars>>

DbInit == Init

DbNext ==
    \/ \E game_data \in GameDicts : InsertGame(game_data) /\ UNCHANGED notDbVars
    \/ \E games \in Batches : InsertGamesBatch(games) /\ UNCHANGED notDbVars
    \/ \E game_id \in GameIds : GetGameById(game_id) /\ UNCHANGED notDbVars

SpecDb == DbInit /\ [][DbNext]_vars

\* ----------------------------------------------------------- the AI client
\* ai/grok_client.py: get_chess_advice on one GrokClient, given what
\* analyze_game returned for a game (web_app.py 367-373, gui.py 509).

\* The longest game whose analysis is handed to the client.
MaxAdvised == 3

\* The score changes of the records of those games.
AdvisedChanges == {0, MistakeThreshold, BlunderThreshold}

\* What the client reads of a Move Record.
AdvisedRecord(n, change) ==
    [move_number |-> n, move |-> "e2e4", score_change |-> change]

\* The dict analyze_game builds from the records with these score changes.
RECURSIVE AdvisedAnalysis(_)
AdvisedAnalysis(changes) ==
    IF changes = <<>> THEN EmptyAnalysis
    ELSE LET n == Len(changes)
         IN  Record(AdvisedAnalysis(SubSeq(changes, 1, n - 1)),
                    AdvisedRecord(n, changes[n]))

\* What analyze_game returns: the error dict, or an analysis with its summary.
AnalysisDatas ==
    {ErrorResult} \cup
    {LET an == AdvisedAnalysis(changes)
     IN  [an EXCEPT !.summary = Summary(an, Len(changes))] :
       changes \in UNION {[1..n -> AdvisedChanges] : n \in 0..MaxAdvised}}

\* The values of api_key: none found, an empty one, a key.
ApiKeys == {None, "", "test_key"}

\* bool(self.api_key)
HasKey(key) == key # None /\ key # ""

\* What _call_grok_api does: it raises (requests.post, raise_for_status,
\* json() or the indexing of an empty "choices"), or returns {"advice": text}.
ApiReplies == {[raises |-> TRUE],
               [raises |-> FALSE, advice |-> "Great game! Keep practicing."],
               [raises |-> FALSE, advice |-> ""]}

\* analysis_data.get("summary", {}) and the three summary.get(key, 0).
SummaryOf(analysis_data) ==
    LET summary == DictGet(analysis_data, "summary", [filled |-> FALSE])
    IN  [blunder_count |-> DictGet(summary, "blunder_count", 0),
         mistake_count |-> DictGet(summary, "mistake_count", 0),
         accuracy      |-> DictGet(summary, "accuracy", Frac(0, 1)),
         total_moves   |-> DictGet(summary, "total_moves", 0)]

\* accuracy >= percent
AtLeast(accuracy, percent) == accuracy.num >= percent * accuracy.den

\* _get_fallback_advice(analysis_data): the text's variable parts.
GetFallbackAdvice(analysis_data) ==
    LET summary == SummaryOf(analysis_data)
    IN  [kind          |-> "fallback",
         opening       |-> IF AtLeast(summary.accuracy, 80) THEN "Excellent game!"
                           ELSE IF AtLeast(summary.accuracy, 60) THEN "Good game"
                           ELSE "challenging moments",
         blunder_count |-> summary.blunder_count,
         mistake_count |-> summary.mistake_count,
         focus         |-> summary.blunder_count > 0]

\* The first three records of a list.
FirstThree(list) == SubSeq(list, 1, IF Len(list) < 3 THEN Len(list) ELSE 3)

\* _build_analysis_prompt raises KeyError when one of the records it lists
\* lacks a key it formats.
PromptRaises(analysis_data) ==
    \E list \in {FirstThree(DictGet(analysis_data, "blunders", <<>>)),
                 FirstThree(DictGet(analysis_data, "mistakes", <<>>))} :
      \E i \in 1..Len(list) :
        ~({"move_number", "move", "score_change"} \subseteq DOMAIN list[i])

\* Mutant: the exception of the API call is not caught.
OnApiError_Raise(analysis_data) == [value |-> None, raised |-> TRUE]

\* except Exception: return self._get_fallback_advice(analysis_data)
OnApiError(analysis_data) ==
    [value |-> GetFallbackAdvice(analysis_data), raised |-> FALSE]

\* response.get("advice", ...)
ApiAdvice(reply) == [kind |-> "advice", text |-> reply.advice]

\* self.client.api_key = key (GrokClient.__init__, or the tests' assignment).
SetApiKey(key) ==
    /\ api_key' = key
    /\ advice' = NoCall

\* get_chess_advice(pgn, analysis_data), the remote API answering with reply.
GetChessAdvice(analysis_data, reply) ==
    /\ LET ret ==
             IF ~HasKey(api_key)
             THEN [value |-> GetFallbackAdvice(analysis_data), raised |-> FALSE,
                   api_calls |-> 0]
             ELSE IF PromptRaises(analysis_data)
             THEN [value |-> None, raised |-> TRUE, api_calls |-> 0]
             ELSE IF reply.raises
             THEN OnApiError(analysis_data) @@ [api_calls |-> 1]
             ELSE [value |-> ApiAdvice(reply), raised |-> FALSE, api_calls |-> 1]
       IN  advice' = [analysis_data |-> analysis_data,
                      api_raised |-> ret.api_calls = 1 /\ reply.raises] @@ ret
    /\ UNCHANGED api_key

\* Everything but the AI client.
notAiVars ==
    <<engine, stockfish_path, procs, walkVars, traceVars, webVars, rateVars,
      dbVars, guiVars>>

AiInit == Init

AiNext ==
    \/ \E key \in ApiKeys : SetApiKey(key) /\ UNCHANGED notAiVars
    \/ \E analysis_data \in AnalysisDatas, reply \in ApiReplies :
         GetChessAdvice(analysis_data, reply) /\ UNCHANGED notAiVars

SpecAi == AiInit /\ [][AiNext]_vars

\* --------------------------------------------------------- the desktop GUI
\* gui.py: the Fetch Games and Analyze Games buttons, their handlers, which
\* run on the main thread, and the worker threads the handlers start.

\* Worker threads the GUI starts in one run.
MaxThreads == 4

\* Games a fetch or the database gives.
MaxFetched == 1

\* A worker thread: its target, where it is, and the games it has analysed.
Thread(target, at) == [target |-> target, pc |-> at, i |-> 0]

\* A click on a button runs its command only when the button is enabled.
Clickable(button) == button = "normal"

\* _fetch_games: a click on Fetch Games with the username entered.
ClickFetch(username) ==
    /\ Clickable(fetch_button)
    /\ IF username = ""
       THEN UNCHANGED <<fetch_button, threads>>
       ELSE /\ Len(threads) < MaxThreads
            /\ fetch_button' = "disabled"
            /\ threads' = Append(threads, Thread("_fetch_games_worker", "fetch"))
    /\ UNCHANGED <<analyze_button, current_games>>

\* _fetch_games_worker up to its finally: get_all_games returns `games`
\* games, or raises (games = -1); games that were found are kept and enable
\* Analyze Games.
FetchWorkerTry(t, games) ==
    /\ threads[t].target = "_fetch_games_worker"
    /\ threads[t].pc = "fetch"
    /\ IF games > 0
       THEN current_games' = games /\ analyze_button' = "normal"
       ELSE UNCHANGED <<current_games, analyze_button>>
    /\ threads' = [threads EXCEPT ![t].pc = "finally"]
    /\ UNCHANGED fetch_button

\* The finally of _fetch_games_worker.
FetchWorkerFinally(t) ==
    /\ threads[t].target = "_fetch_games_worker"
    /\ threads[t].pc = "finally"
    /\ fetch_button' = "normal"
    /\ threads' = [threads EXCEPT ![t].pc = "done"]
    /\ UNCHANGED <<analyze_button, current_games>>

\* _analyze_games: a click on Analyze Games; `stored` is the number of games
\* the database has for the username when none are held.
ClickAnalyze(stored) ==
    /\ Clickable(analyze_button)
    /\ current_games' = IF current_games = 0 THEN stored ELSE current_games
    /\ IF current_games' = 0
       THEN UNCHANGED <<analyze_button, threads>>
       ELSE /\ Len(threads) < MaxThreads
            /\ analyze_button' = "disabled"
            /\ threads' = Append(threads, Thread("_analyze_games_worker", "loop"))
    /\ UNCHANGED fetch_button

\* _analyze_games_worker: the head of its loop over self.current_games.
\* (total_games is taken where the list is read.)
AnalyzeWorkerLoop(t) ==
    /\ threads[t].target = "_analyze_games_worker"
    /\ threads[t].pc = "loop"
    /\ threads' = [threads EXCEPT ![t].pc =
                      IF threads[t].i < current_games THEN "analyze_game"
                      ELSE "finally"]
    /\ UNCHANGED <<fetch_button, analyze_button, current_games>>

\* self.analyzer.analyze_game(game['pgn']) returns (or raises: raises = TRUE),
\* and the rest of the iteration.
AnalyzeWorkerGame(t, raises) ==
    /\ threads[t].target = "_analyze_games_worker"
    /\ threads[t].pc = "analyze_game"
    /\ threads' = [threads EXCEPT ![t] =
                      IF raises THEN [@ EXCEPT !.pc = "finally"]
                      ELSE [@ EXCEPT !.pc = "loop", !.i = @ + 1]]
    /\ UNCHANGED <<fetch_button, analyze_button, current_games>>

\* The finally of _analyze_games_worker.
AnalyzeWorkerFinally(t) ==
    /\ threads[t].target = "_analyze_games_worker"
    /\ threads[t].pc = "finally"
    /\ analyze_button' = "normal"
    /\ threads' = [threads EXCEPT ![t].pc = "done"]
    /\ UNCHANGED <<fetch_button, current_games>>

\* _clear_output: a click on Clear.
ClearOutput ==
    /\ current_games' = 0
    /\ analyze_button' = "disabled"
    /\ UNCHANGED <<fetch_button, threads>>

\* Everything but the GUI.
notGuiVars ==
    <<engine, stockfish_path, procs, walkVars, traceVars, webVars, rateVars,
      dbVars, aiVars>>

GuiInit == Init

GuiNext ==
    \/ \E username \in {"", "testuser"} : ClickFetch(username) /\ UNCHANGED notGuiVars
    \/ \E t \in 1..Len(threads), games \in -1..MaxFetched :
         FetchWorkerTry(t, games) /\ UNCHANGED notGuiVars
    \/ \E t \in 1..Len(threads) : FetchWorkerFinally(t) /\ UNCHANGED notGuiVars
    \/ \E stored \in 0..MaxFetched : ClickAnalyze(stored) /\ UNCHANGED notGuiVars
    \/ \E t \in 1..Len(threads) : AnalyzeWorkerLoop(t) /\ UNCHANGED notGuiVars
    \/ \E t \in 1..Len(threads), raises \in BOOLEAN :
         AnalyzeWorkerGame(t, raises) /\ UNCHANGED notGuiVars
    \/ \E t \in 1..Len(threads) : AnalyzeWorkerFinally(t) /\ UNCHANGED notGuiVars
    \/ ClearOutput /\ UNCHANGED notGuiVars

SpecGui == GuiInit /\ [][GuiNext]_vars

\* ------------------------------------------------------- claims: vocabulary

\* The last call returned an Analysis Result (not the error dict).
Returned == pc = "idle" /\ "moves" \in DOMAIN result

\* The board after the first k moves of a parsed game.
RECURSIVE BoardAt(_, _)
BoardAt(g, k) ==
    IF k = 0 THEN g.board ELSE Push(BoardAt(g, k - 1), g.mainline[k])

\* The material formula as the specification words it: pawn 100, knight 300,
\* bishop 300, rook 500, queen 900, king 0.
SideMaterial(side) ==
    100 * side.P + 300 * side.N + 300 * side.B + 500 * side.R + 900 * side.Q
    + 0 * side.K

MaterialFormula(b) ==
    IF b.turn = "w"
    THEN SideMaterial(b.w) - SideMaterial(b.b)
    ELSE -(SideMaterial(b.w) - SideMaterial(b.b))

\* The places of the records of `moves` whose score_change is at least 50.
InaccuratePlaces(moves) == {i \in 1..Len(moves) : moves[i].score_change >= 50}

IsIn(rec, list) == \E j \in 1..Len(list) : list[j] = rec

\* ---------------------------------------------------------------- claims

\* C1: for every parsed game whose mainline has N plies, analyze_game returns
\* a result whose moves list has exactly N records, numbered 1, 2, ..., N in
\* game order, and summary.total_moves is N.
C1_OneRecordPerPly ==
    (pc = "idle" /\ pgn # NoPgn /\ game # NoGame) =>
        /\ Returned
        /\ Len(result.moves) = Len(game.mainline)
        /\ \A i \in 1..Len(game.mainline) :
              /\ result.moves[i].move_number = i
              /\ result.moves[i].move = game.mainline[i].uci
        /\ result.summary.total_moves = Len(game.mainline)

C1_Witness ==
    /\ Returned
    /\ Len(game.mainline) = 4
    /\ Len(result.moves) = 4
    /\ used_engine

\* C2: in every Move Record score_change is |score_before - score_after|,
\* also when one of the two scores is exactly zero.
C2_DeltaIsAbsoluteDifference ==
    \A i \in 1..Len(analysis.moves) :
        LET r == analysis.moves[i]
        IN  r.score_change = Abs(r.score_before - r.score_after)

AccuracyAsStated(moves, acc) ==
    LET total == Len(moves)
        bad == Cardinality(InaccuratePlaces(moves))
    IN  /\ acc.den > 0
        /\ 0 <= acc.num /\ acc.num <= 100 * acc.den
        /\ acc.num * total = (total - bad) * 100 * acc.den
        /\ (acc.num = 100 * acc.den) <=> (bad = 0)

\* The lists of Move Records of a state.
RecordLists == {analysis.moves, analysis.blunders, analysis.mistakes}

MoveRecordFields ==
    {"move_number", "move", "score_before", "score_after", "score_change",
     "best_move", "fen"}

\* C5: when no engine process can be started, analyze_game on a parsed game
\* returns one full Move Record per ply whose score_before and score_after
\* are the material formula of the position before and after the move, and
\* it does not raise.

C5_FallbackRecords ==
    /\ engine = None => ~raised
    /\ (pc = "idle" /\ pgn # NoPgn /\ game # NoGame /\ engine = None
        /\ ~used_engine) =>
          /\ Returned
          /\ Len(result.moves) = Len(game.mainline)
          /\ \A i \in 1..Len(game.mainline) :
                LET r == result.moves[i]
                IN  /\ DOMAIN r = MoveRecordFields
                    /\ r.move_number = i
                    /\ r.move = game.mainline[i].uci
                    /\ r.score_before = MaterialFormula(BoardAt(game, i - 1))
                    /\ r.score_after = MaterialFormula(BoardAt(game, i))
                    /\ r.fen = BoardAt(game, i)

C5_Witness ==
    /\ Returned
    /\ engine = None
    /\ ~used_engine
    /\ Len(result.moves) = 3
    /\ result.moves[3].score_before = 100
    /\ result.moves[3].score_after = -900

\* C6: for every board the fallback evaluator returns white material minus
\* black material (pawn 100, knight 300, bishop 300, rook 500, queen 900,
\* king 0) when white is to move and the negation when black is to move; it
\* always yields a value and never a best move.
C6_MaterialEval ==
    /\ MaterialEval(board) \in Int
    /\ MaterialEval(board) = MaterialFormula(board)
    /\ (pgn # NoPgn /\ game # NoGame) =>
          \A k \in 0..Len(game.mainline) :
             MaterialEval(BoardAt(game, k)) = MaterialFormula(BoardAt(game, k))
    /\ ~used_engine =>
          \A i \in 1..Len(analysis.moves) :
             /\ analysis.moves[i].best_move = None
             /\ analysis.moves[i].score_after
                   = MaterialFormula(analysis.moves[i].fen)

C6_Witness ==
    /\ pc = "walk"
    /\ ~used_engine
    /\ Len(analysis.moves) = 1
    /\ board.turn = "b"
    /\ analysis.moves[1].score_before = 300
    /\ analysis.moves[1].score_after = -300

\* Material is balanced at the start of game g and after each of its plies.
Balanced(g) ==
    \A k \in 0..Len(g.mainline) :
        SideMaterial(BoardAt(g, k).w) = SideMaterial(BoardAt(g, k).b)

BalancedOutcome ==
    /\ Returned
    /\ \A i \in 1..Len(result.moves) :
          result.moves[i].score_before = 0 /\ result.moves[i].score_after = 0
    /\ result.summary.blunder_count = 0
    /\ result.summary.mistake_count = 0
    /\ result.summary.accuracy.num = 100 * result.summary.accuracy.den
    /\ result.summary.total_moves = Len(game.mainline)

ExampleText ==
    Text(FALSE, StartBoard,
         <<Quiet("e2e4"), Quiet("e7e5"), Quiet("g1f3"), Quiet("b8c6")>>)

\* C7 as stated: with no engine, a game in which material stays balanced at
\* every ply yields score_before = score_after = 0 in every record,
\* blunder_count 0, mistake_count 0, accuracy 100.0 and total_moves equal to
\* the ply count.
C7_BalancedGameOriginal ==
    (pc = "idle" /\ pgn # NoPgn /\ game # NoGame /\ engine = None
     /\ ~used_engine /\ Balanced(game)) => BalancedOutcome

\* C7, amended: the same for a game of at least one ply (4 plies for
\* "1. e4 e5 2. Nf3 Nc6").
C7_BalancedGame ==
    /\ (pc = "idle" /\ pgn # NoPgn /\ game # NoGame /\ engine = None
        /\ ~used_engine /\ Balanced(game) /\ Len(game.mainline) >= 1)
          => BalancedOutcome
    /\ (pc = "idle" /\ pgn = ExampleText /\ engine = None /\ ~used_engine)
          => BalancedOutcome /\ result.summary.total_moves = 4

C7_Witness ==
    /\ pc = "idle"
    /\ pgn = ExampleText
    /\ engine = None
    /\ ~used_engine
    /\ Returned
    /\ result.summary.total_moves = 4
    /\ result.summary.accuracy = Frac(400, 4)

\* C8: analyze_game on a game with zero moves returns an Analysis Result,
\* not an error result, with an empty moves list and a summary with
\* total_moves 0, blunder_count 0, mistake_count 0 and accuracy 0.
C8_ZeroMoveGame ==
    (pc = "idle" /\ pgn # NoPgn /\ game # NoGame /\ Len(game.mainline) = 0) =>
        /\ ~raised
        /\ Returned
        /\ "error" \notin DOMAIN result
        /\ result.moves = <<>>
        /\ result.blunders = <<>>
        /\ result.mistakes = <<>>
        /\ result.summary.total_moves = 0
        /\ result.summary.blunder_count = 0
        /\ result.summary.mistake_count = 0
        /\ result.summary.accuracy.num = 0
        /\ result.summary.accuracy.den > 0

C8_Witness ==
    /\ Returned
    /\ pgn = Text(FALSE, StartBoard, <<>>)
    /\ result.summary.total_moves = 0
    /\ result.summary.filled

HasIllegalMove(text) ==
    Len(LegalPrefix(text.start, text.tokens)) < Len(text.tokens)

\* C10: when a move of an otherwise parsed game cannot be legally applied,
\* analyze_game aborts the game with an invalid-game error and returns no
\* result holding move records for only part of the game.
C10_IllegalMoveAborts ==
    (pc = "idle" /\ pgn # NoPgn /\ game # NoGame /\ HasIllegalMove(pgn)) =>
        /\ "error" \in DOMAIN result
        /\ "moves" \notin DOMAIN result

\* ------------------------------------------------------------ the session

\* The last call was get_position_evaluation.
PositionCall == caller.op = "get_position_evaluation"

\* A value returned to the caller carries an explicit error indicator.
IsErrorRecord(r) == "error" \in DOMAIN r

\* C11: get_position_evaluation returns a structured error record and lets no
\* exception escape, both when no engine is available and when the FEN is
\* unparsable (whether or not an engine is running).
C11_StructuredError ==
    (PositionCall /\ (engine = None \/ ~caller.fen.valid))
        => (~raised /\ IsErrorRecord(out))

\* The engine answered the last get_position_evaluation with a score and a
\* non-empty principal variation.
AnsweredWithPv ==
    /\ PositionCall
    /\ Len(last_eval.replies) = 1
    /\ ~last_eval.replies[1].raises
    /\ last_eval.replies[1].info.score # <<>>
    /\ last_eval.replies[1].info.pv # <<>>

\* C12: when the engine is running and answers a valid FEN with a score and a
\* non-empty principal variation, get_position_evaluation returns the record
\* {score, best_move, depth, fen} with the engine's score, the first move of
\* the principal variation in UCI notation, and the depth and FEN it was given;
\* it does not return an error record.
C12_SuccessRecord ==
    AnsweredWithPv =>
        out = [score |-> last_eval.replies[1].info.score[1],
               best_move |-> Uci(last_eval.replies[1].info.pv[1]),
               depth |-> caller.depth,
               fen |-> caller.fen]

\* The last call was close() or __del__.
Closed == caller.op \in {"close", "__del__"}

LiveProcs == {p \in 1..Len(procs) : procs[p] = 0}

\* C15: with a single caller the analyzer holds at most one live engine
\* process at a time (the one its handle refers to); a process is spawned only
\* when no handle is held, and a held one is kept, and no other spawned, by
\* every call until close().
C15_OneLiveEngine ==
    /\ [](/\ Cardinality(LiveProcs) <= 1
          /\ engine = None <=> LiveProcs = {})
    /\ [][/\ Len(procs') > Len(procs) => engine = None
          /\ (engine # None /\ ~Closed') =>
                (engine' = engine /\ procs' = procs)]_vars

\* A two-ply game evaluated by the second process, after the first was closed.
C15_Witness ==
    /\ procs = <<1, 0>>
    /\ engine # None
    /\ Returned
    /\ Len(result.moves) = 2
    /\ used_engine

\* -------------------------------------------------------- traced evaluations

\* The last step was a ply of the walk that asked a running engine.
EngineAskedForPly ==
    /\ "replies" \in DOMAIN last_eval
    /\ Len(last_eval.replies) = 2
    /\ analysis.moves # <<>>

\* The Move Record of the last ply.
LastRecord == analysis.moves[Len(analysis.moves)]

\* The position the last ply was played in.
BoardBeforeLast == BoardAt(game, Len(analysis.moves) - 1)

\* C16: when a running engine's evaluation call fails during analyze_game, the
\* score recorded for that evaluation is the material value of the position
\* evaluated, and the walk goes on rather than aborting.
C16_FailedEvaluationFallsBack ==
    EngineAskedForPly =>
        /\ ~raised
        /\ last_eval.replies[1].raises =>
             LastRecord.score_before = MaterialEval(BoardBeforeLast)
        /\ last_eval.replies[2].raises =>
             LastRecord.score_after = MaterialEval(LastRecord.fen)

\* The first move of a reply's principal variation, if it has one.
FirstPvMove(reply) ==
    IF reply.raises \/ reply.info.pv = <<>> THEN None ELSE Uci(reply.info.pv[1])

\* C17: in every Move Record, best_move is the first move of the principal
\* variation reported for the position before the move (by the evaluation
\* that gave score_before), and absent when that evaluation reported none.
C17_BestMoveBefore ==
    EngineAskedForPly =>
        LastRecord.best_move = FirstPvMove(last_eval.replies[1])

\* ------------------------------------------------- the session, continued

\* C18: after an engine spawn attempt has failed on an analyzer, the session
\* stays unavailable: no later evaluation request spawns or asks an engine
\* (each is answered by the fallback), and none raises.
C18_UnavailableAfterSpawnFailure ==
    spawn_failed => (engine = None /\ ~raised)

\* The text of the last analyze_game or detect_blunders call holds no game.
InvalidGameGiven == pgn # NoPgn /\ ReadGame(pgn) = NoGame

\* C19: analyze_game and detect_blunders report an invalid game through an
\* explicit error indicator in what they return; neither returns an empty
\* result that a valid game with nothing to report also gives.
C19_InvalidGameReported ==
    (pc = "idle" /\ ~raised /\ InvalidGameGiven) =>
        /\ IsErrorRecord(result)
        /\ caller.op = "detect_blunders" => IsErrorRecord(out)

\* ---------------------------------------------------- the web application

\* The worker threads that are executing current_analyzer.analyze_game.
InAnalyzeGame ==
    {w \in 1..Len(workers) : workers[w].pc \in {"ensure", "spawn", "evaluate"}}

\* C20: worker threads started by /api/analyze_games and
\* /api/analyze_single_game never execute analyze_game on the shared
\* current_analyzer at the same time, so no two threads spawn or drive its
\* engine handle at once.
C20_AnalysesSerialized == Cardinality(InAnalyzeGame) <= 1

\* ---------------------------------------------------- the Chess.com client

\* C22: on one ChessComClient, any two consecutive returns of _rate_limit are
\* at least REQUEST_DELAY apart, so that no two requests sent after it through
\* _get or get_games_from_archive are less than REQUEST_DELAY apart.
C22_ReturnsApart ==
    Len(returns) = 2 => returns[2] - returns[1] >= RequestDelay

\* ------------------------------------------- the jobs and their progress

\* The statuses that end a job.
Terminal == {"completed", "error"}

\* C21: every worker started by /api/fetch_games or /api/analyze_games
\* eventually ends, whatever path it takes; the step that ends it writes
\* analysis_progress with status "completed" or "error", and it writes no
\* progress after that.
C21_WorkersEndTerminal ==
    /\ \A w \in 1..MaxJobs :
         (Len(workers) >= w) ~> (Len(workers) >= w /\ workers[w].pc = "done")
    /\ [][\A w \in 1..Len(workers) :
            /\ (workers[w].pc # "done" /\ workers'[w].pc = "done") =>
                 (analysis_progress'.by = w
                  /\ analysis_progress'.status \in Terminal)
            /\ workers[w].pc = "done" =>
                 (workers'[w] = workers[w]
                  /\ (analysis_progress' # analysis_progress
                        => analysis_progress'.by # w))]_vars

\* An analysis worker has ended after its last game, as the last job started.
C21_Witness ==
    /\ Len(workers) = MaxJobs
    /\ workers[MaxJobs].kind = "analyze_games"
    /\ workers[MaxJobs].pc = "done"
    /\ workers[MaxJobs].i = MaxGames
    /\ analysis_progress = Progress("completed", 100, MaxJobs)

\* C29: after the browser has started a job through /api/analyze_games, any
\* "completed" or "error" status it reads from /api/progress was written by
\* the worker of that job.
C29_TerminalStatusIsOwn ==
    (client.job # 0 /\ "status" \in DOMAIN client.read
        /\ client.read.status \in Terminal)
        => client.read.by = client.job

\* The games inserted so far whose URL ends in the id, by position.
InsertedAs(game_id) ==
    {i \in 1..Len(inserted) : GameId(inserted[i].url) = game_id}

\* The last of them.
MostRecent(game_id) ==
    inserted[CHOOSE i \in InsertedAs(game_id) : \A j \in InsertedAs(game_id) : j <= i]

\* C23: get_game_by_id(id) returns the row of the most recent game inserted,
\* by insert_game or insert_games_batch, whose URL ends in id (its id, its
\* PGN, and its result when it has one), and None when no such game was
\* inserted; no two rows of the games table have the same game_id.
C23_MostRecentGameById ==
    /\ \A r1, r2 \in games_table : r1.game_id = r2.game_id => r1 = r2
    /\ "row" \in DOMAIN found =>
         IF InsertedAs(found.game_id) = {}
         THEN found.row = NoRow
         ELSE /\ found.row # NoRow
              /\ found.row.game_id = found.game_id
              /\ found.row.pgn = MostRecent(found.game_id).pgn
              /\ MostRecent(found.game_id).result # "" =>
                   found.row.result = MostRecent(found.game_id).result

\* Two games with the same id were inserted, and the id was asked for.
C23_Witness ==
    /\ "row" \in DOMAIN found
    /\ Cardinality(InsertedAs(found.game_id)) = 2
    /\ inserted[1].pgn # inserted[2].pgn
    /\ inserted[1].url # inserted[2].url
    /\ found.row # NoRow

\* The counts of the summary of what analyze_game returned, 0 for the error
\* dict.
Counted(analysis_data, key) ==
    IF "summary" \in DOMAIN analysis_data THEN analysis_data.summary[key] ELSE 0

\* C24: get_chess_advice never raises; without an API key it returns the
\* fallback advice and makes no API call, and when the API call raises it
\* returns the fallback advice, which states the summary's blunder and
\* mistake counts.
C24_AdviceNeverRaises ==
    "value" \in DOMAIN advice =>
        /\ ~advice.raised
        /\ (~HasKey(api_key) \/ advice.api_raised) =>
             /\ advice.value.kind = "fallback"
             /\ advice.value.blunder_count = Counted(advice.analysis_data, "blunder_count")
             /\ advice.value.mistake_count = Counted(advice.analysis_data, "mistake_count")
        /\ ~HasKey(api_key) => advice.api_calls = 0

\* With a key, the API call raised for an analysis with a blunder.
C24_Witness ==
    /\ "value" \in DOMAIN advice
    /\ HasKey(api_key)
    /\ advice.api_raised
    /\ advice.value.blunder_count > 0

\* Some engine.analyse call of the step recorded in ev raised.
FailedCall(ev) ==
    /\ "replies" \in DOMAIN ev
    /\ \E i \in 1..Len(ev.replies) : ev.replies[i].raises

\* C25: an engine.analyse call that raises during analyze_game leaves the
\* session as it was: the ply it fails in ends with the handle held and its
\* process not quit, and the next ply of the game asks the same process and
\* spawns none.
C25_FailedCallKeepsSession ==
    [][(pc = "walk" /\ move_number' = move_number + 1) =>
         /\ FailedCall(last_eval') =>
              /\ engine' = Live
              /\ procs'[Len(procs')] = 0
              /\ engine = Live => procs' = procs
         /\ (move_number >= 1 /\ FailedCall(last_eval)) =>
              (engine' = engine /\ procs' = procs)]_vars

\* The second ply of a game, on the one process spawned: its first call
\* raised, and the call after it was answered with a principal variation.
C25_Witness ==
    /\ pc = "walk"
    /\ move_number = 2
    /\ Len(last_eval.replies) = 2
    /\ last_eval.replies[1].raises
    /\ ~last_eval.replies[2].raises
    /\ last_eval.replies[2].info.pv # <<>>
    /\ engine = Live
    /\ procs = <<0>>

\* The move played by a ply step.
MovePlayed == game.mainline[move_number + 1]

\* The Move Record a ply step appends.
NewRecord == analysis'.moves[Len(analysis'.moves)]

RECURSIVE IsSubsequence(_, _)
IsSubsequence(sub, list) ==
    IF sub = <<>> THEN TRUE
    ELSE IF list = <<>> THEN FALSE
    ELSE IF Head(sub) = Head(list)
         THEN IsSubsequence(Tail(sub), Tail(list))
         ELSE IsSubsequence(sub, Tail(list))

\* C27: in every Analysis Result the summary's blunder_count, mistake_count
\* and total_moves are the lengths of blunders, mistakes and moves, and
\* blunders and mistakes are subsequences of moves, in ply order.
C27_SummaryCountsLists ==
    Returned =>
        /\ result.summary.blunder_count = Len(result.blunders)
        /\ result.summary.mistake_count = Len(result.mistakes)
        /\ result.summary.total_moves = Len(result.moves)
        /\ IsSubsequence(result.blunders, result.moves)
        /\ IsSubsequence(result.mistakes, result.moves)

\* A result with two blunders and a ply that is none.
C27_Witness ==
    /\ Returned
    /\ Len(result.blunders) = 2
    /\ Len(result.moves) > 2
    /\ result.summary.blunder_count = 2

\* No method was called yet, or the last call was close() or __del__: no
\* handle is held and every process spawned was asked to quit.
AbsentWhenClosed ==
    (caller = NoCall \/ Closed) => (engine = None /\ LiveProcs = {})

\* A step that spawns spawns one process, not yet asked to quit.
SpawnsFresh ==
    Len(procs') > Len(procs) =>
        (Len(procs') = Len(procs) + 1 /\ procs'[Len(procs')] = 0)

AnalysisWorkers ==
    {t \in 1..Len(threads) :
        threads[t].target = "_analyze_games_worker" /\ threads[t].pc # "done"}

\* C30: at most one analysis worker of the GUI runs at a time, and while one
\* runs the Analyze Games button is disabled, whatever the fetch workers do.
C30_OneAnalysisWorker ==
    /\ Cardinality(AnalysisWorkers) <= 1
    /\ AnalysisWorkers # {} => analyze_button = "disabled"

====
